---------------------------- MODULE Spec2Model ----------------------------
(***************************************************************************)
(* A model of src/app/main.py: the BCF REST facade with its two endpoints  *)
(* GET /bcf/versions and GET /bcf/{version}/auth.                          *)
(*                                                                         *)
(* Values.  A Python or JSON value is a tuple whose first element names    *)
(* its type: <<"str", s>>, <<"bool", b>>, <<"list", seq>>, <<"None">>      *)
(* (Python's None) and <<"null">> (JSON's null).  A dict, a pydantic model *)
(* and a JSON object are functions from field names to such values; a key  *)
(* a dict does not hold is outside the function's DOMAIN.  A pydantic      *)
(* model is the function on the fields it was given (its fields set): a    *)
(* declared field outside the DOMAIN holds its default, None.              *)
(*                                                                         *)
(* Paths.  A request path is the sequence of its segments: the text        *)
(* between the slashes after the leading one.  "/bcf/versions" is          *)
(* <<"bcf", "versions">>, "/bcf//auth" is <<"bcf", "", "auth">>, and a     *)
(* trailing slash leaves an empty last segment.                            *)
(*                                                                         *)
(* The request methods are all GET.  The validation of pydantic and the    *)
(* routing and serialisation of FastAPI/Starlette are modelled as the      *)
(* declarations of main.py invoke them.  main.py pins no version of        *)
(* pydantic, and the two generations validate differently; which one the   *)
(* process runs on is fixed when it starts (the variable pydantic).        *)
(***************************************************************************)
EXTENDS Integers, Sequences, FiniteSets, TLC

\* ------------------------------------------------------------- bounds

\* Requests a process serves in one behaviour of Spec.
MaxRequests == 3

\* Requests a process serves in one behaviour of SpecCfg.
MaxCfgRequests == 1

\* Longest versions table SpecCfg starts from.
MaxDb == 2

Requests == 1..MaxRequests

CfgRequests == {r \in Requests : r <= MaxCfgRequests}

\* ------------------------------------------------------------- state

VARIABLES
    pydantic,   \* the generation of pydantic the process imports
    fake_db,    \* the versions table
    example,    \* AuthenticationInGet.Config.schema_extra['example']
    pc,         \* pc[r]: where request r is
    path,       \* path[r]: the path request r asks for
    called,     \* called[r]: the handler invoked for request r, or "none"
    retval,     \* retval[r]: what the handler returned, or <<"unset">>
    response,   \* response[r]: the answer to request r, or <<"unset">>
    overlap,    \* overlap[r]: another request was in flight while r was
    openapi_schema  \* app.openapi_schema: the OpenAPI document once built

vars == <<pydantic, fake_db, example, pc, path, called, retval, response, overlap,
          openapi_schema>>

\* ------------------------------------------------------------- values

Str(s) == <<"str", s>>

Bool(b) == <<"bool", b>>

List(l) == <<"list", l>>

\* A dict nested in a JSON document.
Dict(d) == <<"dict", d>>

PyNone == <<"None">>

JsonNull == <<"null">>

GitHubUrl == "https://github.com/BuildingSMART/BCF-API"

AuthUrl == "https://example.com/bcf/oauth2/auth"

TokenUrl == "https://example.com/bcf/oauth2/token"

RegUrl == "https://example.com/bcf/oauth2/reg"

\* Strings a table could hold in a URL field that are no http/https URL.
FtpUrl == "ftp://example.com/bcf/spec"

NoSchemeUrl == "not-a-url"

NoHostUrl == "https://"

\* ------------------------------------------------------------- tables

\* fake_db with its two entries in the other order.
FakeDbSwapped ==
    << [version_id |-> Str("2.1"), detailed_version |-> Str(GitHubUrl)],
       [version_id |-> Str("1.0"), detailed_version |-> Str(GitHubUrl)] >>

\* fake_db as main.py writes it.
FakeDbLiteral ==
    << [version_id |-> Str("1.0"), detailed_version |-> Str(GitHubUrl)],
       [version_id |-> Str("2.1"), detailed_version |-> Str(GitHubUrl)] >>

\* The example without its oauth2_token_url.
ExampleNoTokenUrl ==
    [ oauth2_auth_url |-> Str(AuthUrl),
      oauth2_dynamic_client_reg_url |-> Str(RegUrl),
      http_basic_supported |-> Bool(TRUE),
      supported_oauth2_flows |->
          List(<< Str("authorization_code_grant"), Str("implicit_grant"),
                  Str("resource_owner_password_credentials_grant") >>) ]

\* AuthenticationInGet.Config.schema_extra['example'] as main.py writes it.
ExampleLiteral ==
    [ oauth2_auth_url |-> Str(AuthUrl),
      oauth2_token_url |-> Str(TokenUrl),
      oauth2_dynamic_client_reg_url |-> Str(RegUrl),
      http_basic_supported |-> Bool(TRUE),
      supported_oauth2_flows |->
          List(<< Str("authorization_code_grant"), Str("implicit_grant"),
                  Str("resource_owner_password_credentials_grant") >>) ]

\* ------------------------------------------------------------- pydantic

\* The scheme and the host pydantic's URL pattern finds in a string
\* ("" where it finds none).
UrlParts(u) ==
    CASE u = GitHubUrl   -> [scheme |-> "https", host |-> "github.com"]
      [] u = AuthUrl     -> [scheme |-> "https", host |-> "example.com"]
      [] u = TokenUrl    -> [scheme |-> "https", host |-> "example.com"]
      [] u = RegUrl      -> [scheme |-> "https", host |-> "example.com"]
      [] u = FtpUrl      -> [scheme |-> "ftp", host |-> "example.com"]
      [] u = NoSchemeUrl -> [scheme |-> "", host |-> "not-a-url"]
      [] u = NoHostUrl   -> [scheme |-> "https", host |-> ""]

\* AnyHttpUrl: the value is a string with scheme http or https and a host.
AnyHttpUrl(v) ==
    /\ v[1] = "str"
    /\ UrlParts(v[2]).scheme \in {"http", "https"}
    /\ UrlParts(v[2]).host # ""

\* The generations of pydantic main.py imports from without error.
PydanticBuilds == {"v1", "v2"}

Ok(v) == <<"ok", v>>

ValidationError == <<"raise", "ValidationError">>

\* A field typed str.  pydantic 1 turns a bool into its text, pydantic 2
\* takes a str only.
StrField(v) ==
    CASE v[1] = "str" -> Ok(v)
      [] v[1] = "bool" /\ pydantic = "v1" -> Ok(Str(IF v[2] THEN "True" ELSE "False"))
      [] OTHER -> ValidationError

\* The upper-case form of a lower-case letter of the bool words; a digit
\* has one form only.
Upper(c) ==
    CASE c = "a" -> "A" [] c = "e" -> "E" [] c = "f" -> "F" [] c = "l" -> "L"
      [] c = "n" -> "N" [] c = "o" -> "O" [] c = "r" -> "R" [] c = "s" -> "S"
      [] c = "t" -> "T" [] c = "u" -> "U" [] c = "y" -> "Y"
      [] OTHER -> c

\* Every string that lower-cases to the word spelt by the letters.
RECURSIVE Spellings(_)
Spellings(letters) ==
    IF letters = <<>> THEN {""}
    ELSE { c \o rest : c \in {letters[1], Upper(letters[1])},
                       rest \in Spellings(Tail(letters)) }

\* The words pydantic reads as True and as False ("1", "on", "t", "true",
\* "y", "yes" and "0", "off", "f", "false", "n", "no"), letter by letter.
BoolTrue ==
    { <<"1">>, <<"o", "n">>, <<"t">>, <<"t", "r", "u", "e">>, <<"y">>,
      <<"y", "e", "s">> }

BoolFalse ==
    { <<"0">>, <<"o", "f", "f">>, <<"f">>, <<"f", "a", "l", "s", "e">>,
      <<"n">>, <<"n", "o">> }

\* The strings a bool field reads as True and as False: the comparison
\* ignores the case of every letter.
TrueWords == UNION { Spellings(w) : w \in BoolTrue }

FalseWords == UNION { Spellings(w) : w \in BoolFalse }

\* A field typed bool: a bool, or one of the words above.
BoolField(v) ==
    CASE v[1] = "bool" -> Ok(v)
      [] v[1] = "str" /\ v[2] \in TrueWords -> Ok(Bool(TRUE))
      [] v[1] = "str" /\ v[2] \in FalseWords -> Ok(Bool(FALSE))
      [] OTHER -> ValidationError

\* A field typed List[str]: a list whose every element passes as a str.
ListStrField(v) ==
    IF v[1] = "list" /\ \A i \in 1..Len(v[2]) : StrField(v[2][i])[1] = "ok"
    THEN Ok(List([i \in 1..Len(v[2]) |-> StrField(v[2][i])[2]]))
    ELSE ValidationError

\* A field typed AnyHttpUrl.
UrlField(v) == IF AnyHttpUrl(v) THEN Ok(v) ELSE ValidationError

\* A field declared with Field(None, ...) is not validated when its key is
\* missing.  Under pydantic 1 such a field is Optional and None passes as
\* it is; under pydantic 2 None is validated against the field's type, and
\* fails.
Unset(d, k) == k \notin DOMAIN d \/ (pydantic = "v1" /\ d[k] = PyNone)

\* What an optional field holds: None when unset, else what its type makes
\* of the value (`validated`).
OptionalValue(d, k, validated) == IF Unset(d, k) THEN Ok(PyNone) ELSE validated

VersionFields == {"version_id", "detailed_version"}

VersionField(item, k) ==
    IF k = "version_id"
    THEN IF k \in DOMAIN item THEN StrField(item[k]) ELSE ValidationError
    ELSE OptionalValue(item, k, IF k \in DOMAIN item THEN UrlField(item[k]) ELSE Ok(PyNone))

\* Version(**item): <<"ok", model>> or <<"raise", "ValidationError">>.  Keys
\* that are no field are ignored.
Version(item) ==
    IF \A k \in VersionFields : VersionField(item, k)[1] = "ok"
    THEN Ok([k \in VersionFields \cap DOMAIN item |-> VersionField(item, k)[2]])
    ELSE ValidationError

AuthFields ==
    { "oauth2_auth_url", "oauth2_token_url", "oauth2_dynamic_client_reg_url",
      "http_basic_supported", "supported_oauth2_flows" }

UrlFields ==
    { "oauth2_auth_url", "oauth2_token_url", "oauth2_dynamic_client_reg_url" }

AuthField(d, k) ==
    IF k \notin DOMAIN d THEN Ok(PyNone)
    ELSE OptionalValue(d, k,
             CASE k \in UrlFields -> UrlField(d[k])
               [] k = "http_basic_supported" -> BoolField(d[k])
               [] k = "supported_oauth2_flows" -> ListStrField(d[k]))

\* AuthenticationInGet(**d): <<"ok", model>> or <<"raise", "ValidationError">>.
AuthenticationInGet(d) ==
    IF \A k \in AuthFields : AuthField(d, k)[1] = "ok"
    THEN Ok([k \in AuthFields \cap DOMAIN d |-> AuthField(d, k)[2]])
    ELSE ValidationError

\* ------------------------------------------------------------- handlers

\* The comprehension with the items that fail left out.
RECURSIVE VersionsFromSkipping(_, _)
VersionsFromSkipping(db, i) ==
    IF i > Len(db) THEN <<"ok", <<>>>>
    ELSE LET v == Version(db[i])
             rest == VersionsFromSkipping(db, i + 1)
         IN  IF v[1] # "ok" THEN rest
             ELSE <<"ok", <<v[2]>> \o rest[2]>>

\* [Version(**item) for item in db[i..]]: the models, in the table's order,
\* or the exception of the first item that fails.
RECURSIVE VersionsFrom(_, _)
VersionsFrom(db, i) ==
    IF i > Len(db) THEN <<"ok", <<>>>>
    ELSE LET v == Version(db[i])
         IN  IF v[1] # "ok" THEN v
             ELSE LET rest == VersionsFrom(db, i + 1)
                  IN  IF rest[1] # "ok" THEN rest
                      ELSE <<"ok", <<v[2]>> \o rest[2]>>

\* Versions(versions=...): every element, a Version or a dict, must validate
\* as a Version.  <<"ok", model>> or <<"raise", "ValidationError">>.
Versions(versions) ==
    IF \A i \in 1..Len(versions) : Version(versions[i])[1] = "ok"
    THEN Ok([versions |-> [i \in 1..Len(versions) |-> Version(versions[i])[2]]])
    ELSE ValidationError

\* get_versions collecting into one list all its invocations share: an
\* invocation that starts while another's result is not yet sent finds that
\* one's models already in the list.
get_versions_shared(db) ==
    LET versions == VersionsFrom(db, 1)
        pending == {q \in DOMAIN pc : pc[q] = "serialize" /\ called[q] = "get_versions"}
    IN  IF versions[1] # "ok" THEN versions
        ELSE IF pending = {} THEN Versions(versions[2])
        ELSE Versions(versions[2] \o versions[2])

\* What the body of get_versions does with the table: <<"ok", Versions model>>
\* or <<"raise", "ValidationError">>.
get_versions_body(db) ==
    LET versions == VersionsFrom(db, 1)
    IN  IF versions[1] # "ok" THEN versions ELSE Versions(versions[2])

\* get_auth advertising http basic to the first caller only.
get_auth_body_drift(ex) ==
    IF \E q \in DOMAIN pc : pc[q] = "done"
    THEN <<"ok", [k \in DOMAIN ex \ {"http_basic_supported"} |-> ex[k]]>>
    ELSE <<"ok", ex>>

\* What the body of get_auth returns: the example dict itself.
get_auth_body(ex) == <<"ok", ex>>

\* ------------------------------------------------------------- responses

\* jsonable_encoder on one value: None becomes null, a URL its string.
EncodeValue(v) == IF v = PyNone THEN JsonNull ELSE v

\* A model as a dict of all its declared fields.
Dump(m, fields) == [k \in fields |-> IF k \in DOMAIN m THEN m[k] ELSE PyNone]

\* jsonable_encoder on a model, with exclude_unset, exclude_defaults and
\* exclude_none all False (the route decorators set none of them): every
\* declared field is emitted, the unset ones too.
EncodeModel(m, fields) == [k \in fields |-> EncodeValue(Dump(m, fields)[k])]

EncodeVersions(m) ==
    [versions |->
        List([i \in 1..Len(m.versions) |-> EncodeModel(m.versions[i], VersionFields)])]

JsonResponse(code, obj) == [status |-> code, body |-> <<"json", obj>>]

\* Starlette's answer to an exception no handler catches.
InternalServerError == [status |-> 500, body |-> <<"text", "Internal Server Error">>]

NotFound == JsonResponse(404, [detail |-> Str("Not Found")])

\* Starlette's RedirectResponse: 307, no body.
TemporaryRedirect == [status |-> 307, body |-> <<"empty">>]

\* The HTML pages FastAPI adds to every application (/docs,
\* /docs/oauth2-redirect, /redoc): fixed texts that name /openapi.json and
\* hold nothing of the tables.
FrameworkPage(name) == [status |-> 200, body |-> <<"page", name>>]

\* jsonable_encoder(..., exclude_none=True) on a dict: the keys holding None
\* are left out, the other values are kept as they are.
EncodeExcludeNone(d) == [k \in {j \in DOMAIN d : d[j] # PyNone} |-> d[k]]

\* What Config.schema_extra adds to the JSON schema of AuthenticationInGet.
\* pydantic 1 merges schema_extra into the schema, so the schema holds the
\* example as the dict stands, unvalidated.  pydantic 2 reads
\* json_schema_extra and passes over the key schema_extra.
SchemaExtra(ex) ==
    [k \in (IF pydantic = "v1" THEN {"example"} ELSE {}) |->
        Dict(EncodeExcludeNone(ex))]

\* get_openapi(title, version, description, routes): the OpenAPI document.
\* Of its members the model keeps those the texts and tables of main.py
\* decide: info, and what schema_extra adds to
\* components.schemas.AuthenticationInGet.  The others (the version of
\* OpenAPI, paths, the properties of the schemas) are fixed by the
\* declarations and are left out.
get_openapi(ex) ==
    [ info |->
          Dict([ title |-> Str("BCF REST API"),
                 description |-> Str("BCF is a format for managing issues on a BIM project. The BCF-API supports the exchange of BCF issues between software applications via a RESTful web interface, which means ..."),
                 version |-> Str("2.1") ]),
      components |->
          Dict([schemas |-> Dict([AuthenticationInGet |-> Dict(SchemaExtra(ex))])]) ]

\* app.openapi(): the document is built at the first call and kept in
\* app.openapi_schema; later calls return the kept one.
openapi(schema, ex) ==
    IF schema[1] = "None" THEN Dict(get_openapi(ex)) ELSE schema

\* serialize_response with response_model=Versions.  With pydantic 1 the
\* returned model is turned into a dict, validated as Versions and encoded;
\* with pydantic 2 the returned model, a Versions already, is encoded.
SerializeVersions(content) ==
    LET dumped == [i \in 1..Len(content.versions) |->
                      Dump(content.versions[i], VersionFields)]
        model == IF pydantic = "v1" THEN Versions(dumped) ELSE Ok(content)
    IN  IF model[1] # "ok" THEN InternalServerError
        ELSE JsonResponse(200, EncodeVersions(model[2]))

\* serialize_response with response_model=AuthenticationInGet: the returned
\* dict is validated as AuthenticationInGet and encoded.
SerializeAuth(content) ==
    LET model == AuthenticationInGet(content)
    IN  IF model[1] # "ok" THEN InternalServerError
        ELSE JsonResponse(200, EncodeModel(model[2], AuthFields))

\* ------------------------------------------------------------- routing

\* The routes FastAPI(...) sets up with its default openapi_url, docs_url,
\* swagger_ui_oauth2_redirect_url and redoc_url.
SetupRoutes ==
    << [path |-> <<"openapi.json">>, endpoint |-> "openapi"],
       [path |-> <<"docs">>, endpoint |-> "swagger_ui_html"],
       [path |-> <<"docs", "oauth2-redirect">>, endpoint |-> "swagger_ui_redirect"],
       [path |-> <<"redoc">>, endpoint |-> "redoc_html"] >>

\* The routes the two decorators add to `router`, in their order.
RouterRoutes ==
    << [path |-> <<"versions">>, endpoint |-> "get_versions"],
       [path |-> <<"{version}", "auth">>, endpoint |-> "get_auth"] >>

\* The router included without its prefix.
IncludeWithoutPrefix(routes, prefix) == routes

\* app.include_router(router, prefix): each route under the prefix.
include_router(routes, prefix) ==
    [i \in 1..Len(routes) |->
        [path |-> prefix \o routes[i].path, endpoint |-> routes[i].endpoint]]

AppRoutes == SetupRoutes \o include_router(RouterRoutes, <<"bcf">>)

\* The path parameter constrained to the version identifiers of main.py.
MatchKnownVersion(pattern, segment) ==
    IF pattern = "{version}" THEN segment \in {"1.0", "2.1"} ELSE segment = pattern

\* A path parameter matches one segment of at least one character.
MatchSegment(pattern, segment) ==
    IF pattern = "{version}" THEN segment # "" ELSE segment = pattern

\* The last segment of a route's pattern: the pattern ends in "$", which
\* matches at the end of the path and also before a newline that ends it.
MatchLastSegment(pattern, segment) ==
    MatchSegment(pattern, segment) \/ segment = pattern \o "\n"

\* A route matches a path when the whole path fits its pattern.
Matches(route, p) ==
    /\ Len(p) = Len(route.path)
    /\ \A i \in 1..Len(p) :
           IF i < Len(p) THEN MatchSegment(route.path[i], p[i])
           ELSE MatchLastSegment(route.path[i], p[i])

MatchingRoutes(p) == {i \in 1..Len(AppRoutes) : Matches(AppRoutes[i], p)}

\* path.rstrip("/"): the path without its empty last segments.
RECURSIVE RStrip(_)
RStrip(p) ==
    IF Len(p) > 0 /\ p[Len(p)] = "" THEN RStrip(SubSeq(p, 1, Len(p) - 1)) ELSE p

\* The path the router tries when no route matches (redirect_slashes).
RedirectPath(p) ==
    IF p[Len(p)] = "" THEN RStrip(p) ELSE p \o <<"">>

\* The router's decision for GET p: the endpoint of the first route that
\* matches, else "redirect" when the path with its trailing slash toggled
\* matches a route, else "not_found".
Route(p) ==
    IF MatchingRoutes(p) # {}
    THEN AppRoutes[CHOOSE i \in MatchingRoutes(p) :
                       \A j \in MatchingRoutes(p) : i <= j].endpoint
    ELSE IF p # <<"">> /\ MatchingRoutes(RedirectPath(p)) # {}
         THEN "redirect"
         ELSE "not_found"

\* ------------------------------------------------------------- requests

\* The paths requests ask for.
Paths ==
    { <<"bcf", "versions">>,
      <<"bcf", "xyz", "auth">>,
      <<"bcf", "versions", "auth">>,
      <<"bcf", "", "auth">>,
      <<"bcf", "unknown">>,
      <<"versions">>,
      <<"docs">>,
      <<"openapi.json">>,
      <<"bcf", "versions", "">>,
      <<"bcf", "versions\n">> }

InFlight(r) == pc[r] \notin {"idle", "done"}

Done(r) == pc[r] = "done"

InitRequests ==
    /\ pc = [r \in Requests |-> "idle"]
    /\ path = [r \in Requests |-> <<>>]
    /\ called = [r \in Requests |-> "none"]
    /\ retval = [r \in Requests |-> <<"unset">>]
    /\ response = [r \in Requests |-> <<"unset">>]
    /\ overlap = [r \in Requests |-> FALSE]

\* The process as main.py starts it.
Init ==
    /\ pydantic \in PydanticBuilds
    /\ fake_db = FakeDbLiteral
    /\ example = ExampleLiteral
    /\ openapi_schema = PyNone
    /\ InitRequests

\* The answer the application gives by itself, when the route is none of
\* the two handlers; schema is app.openapi_schema after the call of
\* app.openapi().
RouterResponse(e, schema) ==
    CASE e = "not_found" -> NotFound
      [] e = "redirect"  -> TemporaryRedirect
      [] e = "openapi"   -> JsonResponse(200, schema[2])
      [] OTHER           -> FrameworkPage(e)

\* Request r arrives asking for p and is routed.  Requests are numbered in
\* the order they arrive.  GET /openapi.json calls app.openapi().
Dispatch(r, p) ==
    /\ pc[r] = "idle"
    /\ \A q \in Requests : q < r => pc[q] # "idle"
    /\ path' = [path EXCEPT ![r] = p]
    /\ LET e == Route(p)
           others == {q \in Requests : InFlight(q)}
       IN  /\ overlap' = [q \in Requests |->
                             IF q = r THEN others # {}
                             ELSE IF q \in others THEN TRUE ELSE overlap[q]]
           /\ openapi_schema' =
                  IF e = "openapi" THEN openapi(openapi_schema, example)
                  ELSE openapi_schema
           /\ IF e \in {"get_versions", "get_auth"}
              THEN /\ pc' = [pc EXCEPT ![r] = e]
                   /\ UNCHANGED response
              ELSE /\ pc' = [pc EXCEPT ![r] = "done"]
                   /\ response' = [response EXCEPT ![r] =
                                      RouterResponse(e, openapi_schema')]
    /\ UNCHANGED <<pydantic, fake_db, example, called, retval>>

\* The call of the handler get_versions for request r.
get_versions(r) ==
    /\ pc[r] = "get_versions"
    /\ called' = [called EXCEPT ![r] = "get_versions"]
    /\ LET res == get_versions_body(fake_db)
       IN  IF res[1] = "ok"
           THEN /\ retval' = [retval EXCEPT ![r] = res]
                /\ pc' = [pc EXCEPT ![r] = "serialize"]
                /\ UNCHANGED response
           ELSE /\ response' = [response EXCEPT ![r] = InternalServerError]
                /\ pc' = [pc EXCEPT ![r] = "done"]
                /\ UNCHANGED retval
    /\ UNCHANGED <<pydantic, fake_db, example, path, overlap, openapi_schema>>

\* get_auth taking oauth2_token_url out of the example dict it returns.
get_auth_consuming(r) ==
    /\ pc[r] = "get_auth"
    /\ called' = [called EXCEPT ![r] = "get_auth"]
    /\ retval' = [retval EXCEPT ![r] = get_auth_body(example)]
    /\ example' = [k \in DOMAIN example \ {"oauth2_token_url"} |-> example[k]]
    /\ pc' = [pc EXCEPT ![r] = "serialize"]
    /\ UNCHANGED <<pydantic, fake_db, path, response, overlap, openapi_schema>>

\* The call of the handler get_auth for request r.
get_auth(r) ==
    /\ pc[r] = "get_auth"
    /\ called' = [called EXCEPT ![r] = "get_auth"]
    /\ retval' = [retval EXCEPT ![r] = get_auth_body(example)]
    /\ pc' = [pc EXCEPT ![r] = "serialize"]
    /\ UNCHANGED <<pydantic, fake_db, example, path, response, overlap,
                   openapi_schema>>

\* The handler's return value is validated against the route's
\* response_model, encoded and sent.
serialize_response(r) ==
    /\ pc[r] = "serialize"
    /\ response' = [response EXCEPT ![r] =
                       IF called[r] = "get_versions"
                       THEN SerializeVersions(retval[r][2])
                       ELSE SerializeAuth(retval[r][2])]
    /\ pc' = [pc EXCEPT ![r] = "done"]
    /\ UNCHANGED <<pydantic, fake_db, example, path, called, retval, overlap,
                   openapi_schema>>

Step(r) ==
    \/ \E p \in Paths : Dispatch(r, p)
    \/ get_versions(r)
    \/ get_auth(r)
    \/ serialize_response(r)

Next == \E r \in Requests : Step(r)

Spec == Init /\ [][Next]_vars

\* ------------------------------------------------------------- tables a
\* process could be started with

\* Entries a versions table could hold: the two of main.py, one without a
\* link, one whose link is no http/https URL, one without version_id, one
\* whose link is None, one whose version_id is a bool.
Items ==
    { FakeDbLiteral[1],
      FakeDbLiteral[2],
      [version_id |-> Str("3.0")],
      [version_id |-> Str("2.0"), detailed_version |-> Str(FtpUrl)],
      [detailed_version |-> Str(GitHubUrl)],
      [version_id |-> Str("9"), detailed_version |-> PyNone],
      [version_id |-> Bool(TRUE)] }

DbSet == UNION {[1..n -> Items] : n \in 0..MaxDb}

BadUrls == {FtpUrl, NoSchemeUrl, NoHostUrl}

\* Capability records: the one of main.py with any of its fields left out,
\* with one URL replaced by a string that is no http/https URL, or with a
\* value of another type than its field's.
ExampleSet ==
    {[k \in S |-> ExampleLiteral[k]] : S \in SUBSET AuthFields}
    \cup {[ExampleLiteral EXCEPT ![k] = Str(b)] : k \in UrlFields, b \in BadUrls}
    \cup { [ExampleLiteral EXCEPT !.http_basic_supported = Str("yes")],
           [ExampleLiteral EXCEPT !.http_basic_supported = Str("tRuE")],
           [ExampleLiteral EXCEPT !.http_basic_supported = Str("nO")],
           [ExampleLiteral EXCEPT !.http_basic_supported = Str("maybe")],
           [ExampleLiteral EXCEPT !.oauth2_token_url = PyNone],
           [ExampleLiteral EXCEPT !.supported_oauth2_flows = List(<<Bool(TRUE)>>)] }

Configs ==
    {<<db, ExampleLiteral>> : db \in DbSet}
    \cup {<<FakeDbLiteral, ex>> : ex \in ExampleSet}

\* A process started with one of these tables in place of the literals.
InitCfg ==
    /\ pydantic \in PydanticBuilds
    /\ \E c \in Configs : fake_db = c[1] /\ example = c[2]
    /\ openapi_schema = PyNone
    /\ InitRequests

NextCfg == \E r \in CfgRequests : Step(r)

SpecCfg == InitCfg /\ [][NextCfg]_vars

\* ------------------------------------------------------------- properties

VersionsPath == <<"bcf", "versions">>

\* /bcf/{version}/auth with any text, the empty one too, for {version}.
IsAuthPathAny(p) == Len(p) = 3 /\ p[1] = "bcf" /\ p[3] = "auth"

\* /bcf/{version}/auth with at least one character for {version}.
IsAuthPath(p) == IsAuthPathAny(p) /\ p[2] # ""

Status(r) == response[r].status

\* The JSON object of a response, for a response that carries one.
HasJson(r) == response[r].body[1] = "json"

Json(r) == response[r].body[2]

VersionsLiteralResponse ==
    [ status |-> 200,
      body |-> <<"json",
          [versions |-> <<"list",
              << [ version_id |-> <<"str", "1.0">>,
                   detailed_version |->
                       <<"str", "https://github.com/BuildingSMART/BCF-API">> ],
                 [ version_id |-> <<"str", "2.1">>,
                   detailed_version |->
                       <<"str", "https://github.com/BuildingSMART/BCF-API">> ] >> >>] >> ]

\* C1: whatever requests came before, GET /bcf/versions answers 200 with
\* exactly the entries "1.0" and "2.1", in this order, each with the GitHub
\* link.
C1_VersionsLiteral ==
    \A r \in Requests :
        Done(r) /\ path[r] = VersionsPath => response[r] = VersionsLiteralResponse

\* C1 witness: GET /bcf/versions answered after all earlier requests.
C1_Witness ==
    \E r \in Requests :
        /\ r > 1
        /\ \A q \in 1..r : Done(q)
        /\ path[r] = VersionsPath
        /\ path[1] # VersionsPath
        /\ Status(r) = 200

\* C2 as stated: GET /bcf/{version}/auth answers 200 with one and the same
\* body for every value of {version}.
C2_AnyVersion ==
    \A r1, r2 \in Requests :
        /\ Done(r1) /\ IsAuthPathAny(path[r1])
        /\ Done(r2) /\ IsAuthPathAny(path[r2])
        => Status(r1) = 200 /\ response[r1] = response[r2]

\* C2 amended: GET /bcf/{version}/auth answers 200 with one and the same
\* body for every value of {version} of at least one character.
C2_AnyNonEmptyVersion ==
    \A r1, r2 \in Requests :
        /\ Done(r1) /\ IsAuthPath(path[r1])
        /\ Done(r2) /\ IsAuthPath(path[r2])
        => Status(r1) = 200 /\ response[r1] = response[r2]

\* C2 witness: /bcf/versions/auth and /bcf/xyz/auth both answered.
C2_Witness ==
    \E r1, r2 \in Requests :
        /\ Done(r1) /\ path[r1] = <<"bcf", "versions", "auth">>
        /\ Done(r2) /\ path[r2] = <<"bcf", "xyz", "auth">>
        /\ Status(r1) = 200 /\ Status(r2) = 200

\* C3: a field the capability record does not hold is left out of the body
\* of GET /bcf/{version}/auth.
C3_AbsentFieldsOmitted ==
    \A r \in Requests :
        Done(r) /\ called[r] = "get_auth" /\ Status(r) = 200
        => \A k \in AuthFields \ DOMAIN example : k \notin DOMAIN Json(r)

Malformed(v) == v[1] = "str" /\ v[2] \in BadUrls

DbMalformed ==
    \E i \in 1..Len(fake_db) :
        "detailed_version" \in DOMAIN fake_db[i] /\ Malformed(fake_db[i].detailed_version)

ExampleMalformed ==
    \E k \in UrlFields \cap DOMAIN example : Malformed(example[k])

\* A JSON object holds a malformed URL, at any depth of nested objects.
RECURSIVE ObjectCarriesMalformed(_)
ObjectCarriesMalformed(obj) ==
    \E k \in DOMAIN obj :
        \/ Malformed(obj[k])
        \/ obj[k][1] = "dict" /\ ObjectCarriesMalformed(obj[k][2])

CarriesMalformed(r) ==
    /\ HasJson(r)
    /\ \/ ObjectCarriesMalformed(Json(r))
       \/ /\ "versions" \in DOMAIN Json(r)
          /\ \E i \in 1..Len(Json(r).versions[2]) :
                 ObjectCarriesMalformed(Json(r).versions[2][i])

\* C4: when a detailed_version of the versions table, or a *_url of the
\* capability record, is no http/https URL, the request that reads it is
\* answered with a 5xx status, and no response carries such a value.
C4_MalformedUrlFails ==
    \A r \in Requests :
        Done(r) =>
            /\ path[r] = VersionsPath /\ DbMalformed => Status(r) \in 500..599
            /\ IsAuthPath(path[r]) /\ ExampleMalformed => Status(r) \in 500..599
            /\ ~CarriesMalformed(r)

\* C5 as stated: a GET whose path is neither /bcf/versions nor
\* /bcf/{version}/auth answers 404 and invokes no handler.
C5_UnknownIs404 ==
    \A r \in Requests :
        Done(r) /\ path[r] # VersionsPath /\ ~IsAuthPathAny(path[r])
        => Status(r) = 404 /\ called[r] = "none"

\* The path without the one newline that may end it, for the paths the
\* requests ask for.
Chomp(p) ==
    CASE p = <<"bcf", "versions\n">> -> <<"bcf", "versions">>
      [] OTHER -> p

FrameworkPaths ==
    { <<"openapi.json">>, <<"docs">>, <<"docs", "oauth2-redirect">>, <<"redoc">> }

Registered(p) ==
    Chomp(p) = VersionsPath \/ IsAuthPath(Chomp(p)) \/ Chomp(p) \in FrameworkPaths

\* C5 amended: a path counts as a registered path also when one newline
\* follows it.  A GET whose path is neither /bcf/versions nor
\* /bcf/{version}/auth invokes no handler; it answers 200 on the framework's
\* own paths (/openapi.json, /docs, /docs/oauth2-redirect, /redoc), 307 when
\* the path ends in slashes and is a registered path without them, and 404
\* otherwise.
C5_UnknownIs404Or307OrPage ==
    \A r \in Requests :
        Done(r) /\ Chomp(path[r]) # VersionsPath /\ ~IsAuthPath(Chomp(path[r]))
        => /\ called[r] = "none"
           /\ Status(r) =
                 IF Chomp(path[r]) \in FrameworkPaths THEN 200
                 ELSE IF /\ path[r] # <<"">>
                         /\ path[r][Len(path[r])] = ""
                         /\ Registered(RStrip(path[r]))
                      THEN 307
                      ELSE 404

\* C5 witness: /bcf/unknown answered 404, /docs answered 200 and
\* /bcf/versions/ answered 307.  (The newline paths are reached too: every
\* path of Paths is asked for first by request 1.)
C5_Witness ==
    \E r1, r2, r3 \in Requests :
        /\ Done(r1) /\ path[r1] = <<"bcf", "unknown">> /\ Status(r1) = 404
        /\ Done(r2) /\ path[r2] = <<"docs">> /\ Status(r2) = 200
        /\ Done(r3) /\ path[r3] = <<"bcf", "versions", "">> /\ Status(r3) = 307

\* C6: two requests for the same path get the same response, however many
\* requests were answered before either.
C6_Idempotent ==
    \A r1, r2 \in Requests :
        Done(r1) /\ Done(r2) /\ path[r1] = path[r2] => response[r1] = response[r2]

\* C6 witness: the first request of the process and a later one, one after
\* the other, for the same handler's path.
C6_Witness ==
    \E r \in Requests :
        /\ r > 1
        /\ Done(1) /\ Done(r)
        /\ ~overlap[1] /\ ~overlap[r]
        /\ path[r] = path[1]
        /\ called[r] # "none"

Present(obj, k) == k \in DOMAIN obj /\ obj[k] # JsonNull

\* C7: a body of GET /bcf/{version}/auth holds oauth2_auth_url exactly when
\* it holds oauth2_token_url.
C7_AuthUrlIffTokenUrl ==
    \A r \in Requests :
        Done(r) /\ IsAuthPath(path[r]) /\ HasJson(r)
        => (Present(Json(r), "oauth2_auth_url") <=> Present(Json(r), "oauth2_token_url"))

\* C7 witness: an answered GET /bcf/{version}/auth whose body holds both.
C7_Witness ==
    \E r \in Requests :
        /\ Done(r) /\ IsAuthPath(path[r]) /\ Status(r) = 200
        /\ Present(Json(r), "oauth2_auth_url")
        /\ Present(Json(r), "oauth2_token_url")

\* C8: a request handled while others were in flight gets the response a
\* request for the same path gets when it is handled alone.
C8_ConcurrentAsAlone ==
    \A r1, r2 \in Requests :
        /\ Done(r1) /\ overlap[r1]
        /\ Done(r2) /\ ~overlap[r2]
        /\ path[r1] = path[r2]
        => response[r1] = response[r2]

\* C8 witness: a handler's request answered alone and another for the same
\* path answered after running beside a third.
C8_Witness ==
    \E r1, r2 \in Requests :
        /\ Done(r1) /\ overlap[r1]
        /\ Done(r2) /\ ~overlap[r2]
        /\ path[r1] = path[r2]
        /\ called[r1] # "none"

\* C9: no step of any request, succeeding or failing, changes the versions
\* table or the capability record.
C9_TablesUnchanged == [][fake_db' = fake_db /\ example' = example]_vars

\* C9 witness: a handler ran and its request was answered 500.
C9_Witness ==
    \E r \in Requests : Done(r) /\ called[r] # "none" /\ Status(r) = 500

EntryFails(item) == Version(item)[1] # "ok"

\* C10: GET /bcf/versions answers an error status without any entry when an
\* entry of the table fails validation, and every entry of the table
\* otherwise: as many entries as the table has, in its order, each with the
\* texts of the table's entry.
C10_AllOrNothing ==
    \A r \in Requests :
        Done(r) /\ path[r] = VersionsPath =>
            IF \E i \in 1..Len(fake_db) : EntryFails(fake_db[i])
            THEN Status(r) >= 400 /\ ~HasJson(r)
            ELSE /\ Status(r) = 200
                 /\ Len(Json(r).versions[2]) = Len(fake_db)
                 /\ \A i \in 1..Len(fake_db) :
                        \A k \in DOMAIN fake_db[i] :
                            fake_db[i][k][1] = "str" =>
                                Json(r).versions[2][i][k] = fake_db[i][k]

\* C10 witness: GET /bcf/versions answered 500 from a table whose first
\* entry is valid and whose second is not.
C10_Witness ==
    \E r \in Requests :
        /\ Done(r) /\ path[r] = VersionsPath
        /\ Len(fake_db) = 2
        /\ ~EntryFails(fake_db[1]) /\ EntryFails(fake_db[2])
        /\ Status(r) = 500

=============================================================================
